---- MODULE Spec2Model ----
(***************************************************************************)
(* Model of intelliscraper.scraper.Scraper (one engine instance) and of    *)
(* the HTMLParser constructor it calls.  The browser (Playwright) is the   *)
(* environment: every call into it either completes or raises, chosen      *)
(* nondeterministically.                                                   *)
(***************************************************************************)
EXTENDS Integers, Sequences, FiniteSets, TLC

\* ------------------------------------------------------------------ bounds
\* Number of scrap() calls explored on one engine.
MaxCalls == 2

\* Number of times teardown is run on one engine.
MaxTeardowns == 2

\* URLs a caller may ask for.
Urls == {"u1", "u2"}

\* ------------------------------------------------------------ enumerations
\* enums.py: HTMLParserType values.
HTMLParserType == {"html5lib", "html.parser"}

\* BrowsingMode members (imported by scraper.py from intelliscraper.enums).
BrowsingMode == {"FAST", "HUMAN_LIKE"}

\* Python None.
None == "None"

\* Session snapshots: absent, or present with a (possibly empty) cookie
\* list and (possibly None/empty) localStorage and sessionStorage maps.
\* A map is modelled by its set of keys; None and {} are both falsy.
StorageMaps == {{}, {"k1", "k2"}}

CookieLists == {<<>>, <<"c1">>}

Sessions ==
    [present : {TRUE}, cookies : CookieLists,
     localStorage : StorageMaps, sessionStorage : StorageMaps]

NoSession ==
    [present |-> FALSE, cookies |-> <<>>,
     localStorage |-> {}, sessionStorage |-> {}]

\* Constructor arguments of Scraper (scraper.py __init__ signature).
Configs ==
    [open_new_page_per_scrape : BOOLEAN,
     proxy : BOOLEAN,
     session_data : Sessions \cup {NoSession},
     browsing_mode : BrowsingMode \cup {None},
     html_parser_type : HTMLParserType]

\* ------------------------------------------------------------------- state
VARIABLES
    cfg,            \* the constructor arguments of this engine
    phase,          \* "new" | "ready" | "failed" (constructor raised)
    browsing_mode,  \* self.browsing_mode, None until resolved
    pages,          \* self.pages: sequence of page ids
    ctxPages,       \* pages open in the browser context
    initLog,        \* browser calls issued by __init__, in order
    callLog,        \* browser calls issued by the latest scrap(), in order
    done,           \* number of times each browser call was issued so far
    calls,          \* number of scrap() calls made
    last,           \* outcome of the latest scrap() call
    store,          \* storage keys the latest scrap() tried to set, in order
    res,            \* browser resources of the engine that are still open
    td,             \* teardown (__del__) runs: count, calls, escaped exception
    thr,            \* concurrent callers: position and page of each
    fin,            \* library call under test: its arguments
    fout            \* library call under test: its result

vars == <<cfg, phase, browsing_mode, pages, ctxPages, initLog, callLog,
          done, calls, last, store, res, td, thr, fin, fout>>

\* Browser calls the engine issues.
Events ==
    {"start", "launch", "new_context", "add_cookies", "add_init_script",
     "new_page", "goto_base", "eval_local", "eval_session",
     "goto_url", "eval_scroll", "wait", "content",
     "context_close", "browser_close", "playwright_stop"}

\* Count of e in a log.
Count(log, e) == Cardinality({i \in 1..Len(log) : log[i] = e})

\* Index of the first e in a log, 0 if absent.
RECURSIVE IndexFrom(_, _, _)
IndexFrom(log, e, i) ==
    IF i > Len(log) THEN 0
    ELSE IF log[i] = e THEN i ELSE IndexFrom(log, e, i + 1)

Index(log, e) == IndexFrom(log, e, 1)

\* done after issuing the calls of log.
Bump(d, log) == [e \in Events |-> d[e] + Count(log, e)]

\* Python values handed to HTMLParser as html: a str is its sequence of
\* tokens ("" is <<>>); None stands for any non-str value.
PyStr(s) == [type |-> "str", val |-> s]

PyNone == [type |-> "NoneType", val |-> <<>>]

\* Python truthiness of such a value.
Truthy(v) == v.val # <<>>

\* What the latest scrap() call did: how it ended ("return" | "raise"),
\* the exception type that escaped and its __cause__, the URL named in the
\* ScrapError message, the attributes of the returned HTMLParser, the page
\* the call navigated (0: none) and how page.goto(url) ended ("loaded" |
\* "timeout" | "failed", "none" if it was not reached).
NoCall ==
    [outcome |-> "none", url |-> None, exc |-> None, cause |-> None,
     msg_url |-> None, attrs |-> {}, base_url |-> None, html |-> PyNone,
     parser |-> None, page |-> 0, nav |-> "none"]

\* No teardown has run.
NoTeardown == [runs |-> 0, log |-> <<>>, exc |-> None]

\* The callers of the concurrent specification, all idle.
Callers == {"A", "B"}

IdleCallers ==
    [c \in Callers |->
        [pc |-> "idle", page |-> 0, n |-> 0, navigated |-> <<>>,
         raised |-> FALSE]]

\* No library call is under test.
NoLibCall == [op |-> "none"]

\* The engine before construction, no library call under test.
Init ==
    /\ cfg \in Configs
    /\ phase = "new"
    /\ browsing_mode = None
    /\ pages = <<>>
    /\ ctxPages = {}
    /\ initLog = <<>>
    /\ callLog = <<>>
    /\ done = [e \in Events |-> 0]
    /\ calls = 0
    /\ last = NoCall
    /\ store = <<>>
    /\ res = {}
    /\ td = NoTeardown
    /\ thr = IdleCallers
    /\ fin = NoLibCall
    /\ fout = NoLibCall

\* ------------------------------------------------------- browser outcomes
\* Exceptions a browser call may raise: navigation may exceed its deadline
\* (playwright TimeoutError) or fail otherwise; every other call may fail.
Raises(e) ==
    IF e \in {"goto_base", "goto_url"} THEN {"TimeoutError", "Error"}
    ELSE {"Error"}

\* Outcomes of issuing the browser calls of steps one after the other (a
\* straight-line block of Python): all complete, or the k-th raises and
\* the rest is skipped.
RunSteps(steps) ==
    {[log |-> steps, exc |-> None]}
    \cup UNION {{[log |-> SubSeq(steps, 1, k), exc |-> x] :
                   x \in Raises(steps[k])} : k \in 1..Len(steps)}

\* ------------------------------------------------------------ construction
\* The priority with the session test ahead of the proxy test.
ResolveBrowsingMode_SessionFirst(mode, proxy, session) ==
    IF mode # None THEN mode
    ELSE IF session.present THEN "HUMAN_LIKE"
    ELSE IF proxy THEN "FAST"
    ELSE "HUMAN_LIKE"

\* scraper.py 88-95: browsing mode priority.
ResolveBrowsingMode(mode, proxy, session) ==
    IF mode # None THEN mode
    ELSE IF proxy THEN "FAST"
    ELSE IF session.present THEN "HUMAN_LIKE"
    ELSE "HUMAN_LIKE"

\* _add_cookies without the test of the cookie list.
AddCookiesSteps_AnySession(session) ==
    IF session.present THEN <<"add_cookies">> ELSE <<>>

\* scraper.py 152-156: _add_cookies.
AddCookiesSteps(session) ==
    IF session.present /\ session.cookies # <<>>
    THEN <<"add_cookies">> ELSE <<>>

\* __init__ with lines 99 and 100 swapped: scripts before cookies.
InitSteps_ScriptsFirst(c) ==
    <<"start", "launch", "new_context", "add_init_script">>
    \o AddCookiesSteps(c.session_data)

\* __init__ building a second context before installing the scripts.
InitSteps_TwoContexts(c) ==
    <<"start", "launch", "new_context">>
    \o AddCookiesSteps(c.session_data)
    \o <<"new_context", "add_init_script">>

\* scraper.py 56-100: the browser calls of __init__, in program order.
InitSteps(c) ==
    <<"start", "launch", "new_context">>
    \o AddCookiesSteps(c.session_data)
    \o <<"add_init_script">>

\* The browser call e of run r completed.
Completed(r, e) ==
    /\ Index(r.log, e) > 0
    /\ r.exc = None \/ Index(r.log, e) < Len(r.log)

\* scraper.py 56, 71, 115: the resources __init__ acquired in run r: the
\* driver process (self.playwright), the browser and the context.
Acquired(r) ==
    {x \in {"playwright", "browser", "context"} :
        Completed(r, CASE x = "playwright" -> "start"
                       [] x = "browser" -> "launch"
                       [] x = "context" -> "new_context")}

\* Scraper.__init__: runs to completion or raises at one of its calls.
\* self.pages and self.browsing_mode are set after the context is created.
Construct ==
    /\ phase = "new"
    /\ \E r \in RunSteps(InitSteps(cfg)) :
          /\ initLog' = r.log
          /\ res' = Acquired(r)
          /\ done' = Bump(done, r.log)
          /\ phase' = IF r.exc = None THEN "ready" ELSE "failed"
          /\ browsing_mode' =
                IF r.exc = None \/ Len(r.log) > 3
                THEN ResolveBrowsingMode(cfg.browsing_mode, cfg.proxy,
                                         cfg.session_data)
                ELSE None
    /\ UNCHANGED <<cfg, pages, ctxPages, callLog, calls, last, store, td,
                   thr, fin, fout>>

\* -------------------------------------------------------------- HTMLParser
\* html_parser.py 21-26: the parameters of HTMLParser.__init__.
HTMLParserParams == {"base_url", "html", "html_parser"}

\* HTMLParser.__init__ with the test "not html" alone at line 35.
HTMLParser_init_NoTypeTest(kwargs) ==
    LET parser == IF "html_parser" \in DOMAIN kwargs
                  THEN kwargs["html_parser"] ELSE "html5lib"
        failed(x) == [exc |-> x, attrs |-> {}, base_url |-> None,
                      html |-> PyNone, parser |-> None]
    IN  IF ~(DOMAIN kwargs \subseteq HTMLParserParams)
           \/ ~({"base_url", "html"} \subseteq DOMAIN kwargs)
        THEN failed("TypeError")
        ELSE IF ~Truthy(kwargs["html"])
        THEN failed("HTMLParserInputError")
        ELSE [exc |-> None, attrs |-> {"base_url", "html", "soup"},
              base_url |-> kwargs["base_url"], html |-> kwargs["html"],
              parser |-> parser]

\* html_parser.py 21-40: HTMLParser.__init__ called with keyword arguments
\* kwargs (a record).  Python binds the keywords first: one that names no
\* parameter, or a missing required one, is a TypeError before the body
\* runs.  The body rejects html that is empty or not a str.  The result is
\* the exception raised (None: the object was built) and the attributes of
\* the object.
HTMLParser_init(kwargs) ==
    LET parser == IF "html_parser" \in DOMAIN kwargs
                  THEN kwargs["html_parser"] ELSE "html5lib"
        failed(x) == [exc |-> x, attrs |-> {}, base_url |-> None,
                      html |-> PyNone, parser |-> None]
    IN  IF ~(DOMAIN kwargs \subseteq HTMLParserParams)
           \/ ~({"base_url", "html"} \subseteq DOMAIN kwargs)
        THEN failed("TypeError")
        ELSE IF ~(Truthy(kwargs["html"]) /\ kwargs["html"].type = "str")
        THEN failed("HTMLParserInputError")
        ELSE [exc |-> None, attrs |-> {"base_url", "html", "soup"},
              base_url |-> kwargs["base_url"], html |-> kwargs["html"],
              parser |-> parser]

\* ---------------------------------------------------------------- _get_page
\* Identity of the next page the context opens.
NewPageId(ctx) == Cardinality(ctx) + 1

\* scraper.py 267-269: the first page needs storage restoration.
NeedsStorage(session) ==
    session.present
    /\ (session.localStorage # {} \/ session.sessionStorage # {})

\* scraper.py 271-302: the browser calls of storage restoration.
RestoreSteps(session) ==
    <<"goto_base">>
    \o (IF session.localStorage # {} THEN <<"eval_local">> ELSE <<>>)
    \o (IF session.sessionStorage # {} THEN <<"eval_session">> ELSE <<>>)

\* Iteration order of the keys of a storage map ("for (let key in items)").
KeyOrder == <<"k1", "k2">>

KeysOf(map) == SelectSeq(KeyOrder, LAMBDA k : k \in map)

\* The loop leaving at the first setItem that throws.
SetItems_AbortOnThrow(kind, keys) ==
    {[i \in 1..n |-> [store |-> kind, key |-> keys[i], ok |-> i < n]] :
        n \in 1..Len(keys)}
    \cup {[i \in 1..Len(keys) |->
             [store |-> kind, key |-> keys[i], ok |-> TRUE]]}

\* scraper.py 275-283 and 291-299: the script page.evaluate runs: for each
\* key in turn, setItem either succeeds or throws, and a throw is caught
\* inside the loop.  Each outcome lists the keys tried and how each went.
SetItems(kind, keys) ==
    {[i \in 1..Len(keys) |-> [store |-> kind, key |-> keys[i], ok |-> f[i]]] :
        f \in [1..Len(keys) -> BOOLEAN]}

\* scraper.py 271-302: outcomes of the storage restoration: the browser
\* calls issued, the exception raised by one of them (None: none) and the
\* keys tried by the evaluations that ran.
Restore(session) ==
    UNION {
      {[log |-> r.log, exc |-> r.exc, store |-> l \o t] :
         l \in (IF Completed(r, "eval_local")
                THEN SetItems("localStorage", KeysOf(session.localStorage))
                ELSE {<<>>}),
         t \in (IF Completed(r, "eval_session")
                THEN SetItems("sessionStorage",
                              KeysOf(session.sessionStorage))
                ELSE {<<>>})}
      : r \in RunSteps(RestoreSteps(session))}

\* scraper.py 257-315: Scraper._get_page on pool pgs and context pages ctx.
\* Each outcome: the exception raised (None: page returned), the page, the
\* pool and the context's pages afterwards, the browser calls issued and
\* the storage keys tried.
GetPage(pgs, ctx, c) ==
    LET p == NewPageId(ctx)
        out(x, pg, ps, cx, lg, st) ==
            [exc |-> x, page |-> pg, pages |-> ps, ctxPages |-> cx,
             log |-> lg, store |-> st]
        noPage == out("Error", 0, pgs, ctx, <<"new_page">>, <<>>)
    IN  IF pgs = <<>>
        THEN {noPage}
             \cup (IF NeedsStorage(c.session_data)
                   THEN {out(r.exc,
                             IF r.exc = None THEN p ELSE 0,
                             IF r.exc = None THEN Append(pgs, p) ELSE pgs,
                             ctx \cup {p},
                             <<"new_page">> \o r.log,
                             r.store) :
                           r \in Restore(c.session_data)}
                   ELSE {out(None, p, Append(pgs, p), ctx \cup {p},
                             <<"new_page">>, <<>>)})
        ELSE IF c.open_new_page_per_scrape
        THEN {noPage,
              out(None, p, Append(pgs, p), ctx \cup {p}, <<"new_page">>,
                  <<>>)}
        ELSE {out(None, pgs[Len(pgs)], pgs, ctx, <<>>, <<>>)}

\* -------------------------------------------------------------------- scrap
\* scrap() returned the HTMLParser h after navigating page p.
Returned(url, h, p) ==
    [outcome |-> "return", url |-> url, exc |-> None, cause |-> None,
     msg_url |-> None, attrs |-> h.attrs, base_url |-> h.base_url,
     html |-> h.html, parser |-> h.parser, page |-> p, nav |-> "none"]

\* scrap() let exception x escape, with __cause__ cause and, for a
\* ScrapError, the URL named in its message.
Raised(url, x, cause, msg_url, p) ==
    [outcome |-> "raise", url |-> url, exc |-> x, cause |-> cause,
     msg_url |-> msg_url, attrs |-> {}, base_url |-> None, html |-> PyNone,
     parser |-> None, page |-> p, nav |-> "none"]

\* page.content() after the navigation to url ended as nav.
Content(url, nav) == PyStr(<<url, nav>>)

\* scraper.py 377-381 and 387-391: the keywords scrap() passes to HTMLParser.
ParserKwargs(url, html, t) ==
    [base_url |-> url, html |-> html, html_parser_type |-> t]

\* The try body without the test of line 358: it scrolls in every mode.
TrySteps_AlwaysScroll(mode) ==
    <<"goto_url", "eval_scroll", "wait", "content">>

\* scraper.py 339-379: the browser calls of the try body, in program order.
TrySteps(mode) ==
    <<"goto_url">>
    \o (IF mode = "HUMAN_LIKE" THEN <<"eval_scroll", "wait">> ELSE <<>>)
    \o <<"content">>

\* The handler as it would be without "from e": the cause is lost.
ScrapFailure_NoCause(url, e, p) == Raised(url, "ScrapError", None, url, p)

\* scraper.py 392-394: except Exception as e.
ScrapFailure(url, e, p) == Raised(url, "ScrapError", e, url, p)

\* scraper.py 382-391: except TimeoutError.  An exception raised inside
\* the handler escapes as it is.
TimeoutHandler(url, p, t) ==
    {[log |-> r.log,
      res |-> IF r.exc # None THEN Raised(url, r.exc, None, None, p)
              ELSE LET h == HTMLParser_init(
                                ParserKwargs(url, Content(url, "partial"), t))
                   IN  IF h.exc = None THEN Returned(url, h, p)
                       ELSE Raised(url, h.exc, None, None, p)] :
       r \in RunSteps(<<"content">>)}

\* scraper.py 338-394: an exception e raised in the try body is dispatched
\* to the first matching except clause.
ExceptClauses(url, e, p, t) ==
    IF e = "TimeoutError" THEN TimeoutHandler(url, p, t)
    ELSE {[log |-> <<>>, res |-> ScrapFailure(url, e, p)]}

\* scraper.py 339-343: how page.goto(url) ended in run r of the try body.
NavOutcome(r) ==
    IF r.exc # None /\ r.log = <<"goto_url">>
    THEN (IF r.exc = "TimeoutError" THEN "timeout" ELSE "failed")
    ELSE "loaded"

\* scraper.py 338-394: the try statement of scrap() on page p.
TryBlock(url, p, mode, t) ==
    UNION {
      IF r.exc # None
      THEN {[log |-> r.log \o x.log,
             res |-> [x.res EXCEPT !.nav = NavOutcome(r)]] :
              x \in ExceptClauses(url, r.exc, p, t)}
      ELSE LET h == HTMLParser_init(
                        ParserKwargs(url, Content(url, "full"), t))
           IN  IF h.exc = None
               THEN {[log |-> r.log,
                      res |-> [Returned(url, h, p) EXCEPT !.nav = "loaded"]]}
               ELSE {[log |-> r.log \o x.log,
                      res |-> [x.res EXCEPT !.nav = "loaded"]] :
                       x \in ExceptClauses(url, h.exc, p, t)}
      : r \in RunSteps(TrySteps(mode))}

\* A handler that closes the page of a call ending in ScrapError and takes
\* it out of the pool.
PagesAfterTry_DiscardOnFailure(g, r) ==
    IF r.exc = "ScrapError"
    THEN [pages |-> SelectSeq(g.pages, LAMBDA q : q # g.page),
          ctxPages |-> g.ctxPages \ {g.page}]
    ELSE [pages |-> g.pages, ctxPages |-> g.ctxPages]

\* scraper.py 338-394: the pool and the context's pages after the try
\* statement ended with result r, when _get_page left them as in g: no
\* statement of the try body or of an except clause closes a page or
\* assigns self.pages.
PagesAfterTry(g, r) == [pages |-> g.pages, ctxPages |-> g.ctxPages]

\* scraper.py 317-394: Scraper.scrap(url).  _get_page runs outside the try
\* statement, so what it raises escapes unchanged.
Scrap(url) ==
    /\ phase = "ready"
    /\ td.runs = 0
    /\ calls < MaxCalls
    /\ \E g \in GetPage(pages, ctxPages, cfg) :
          /\ store' = g.store
          /\ IF g.exc # None
             THEN /\ pages' = g.pages
                  /\ ctxPages' = g.ctxPages
                  /\ callLog' = g.log
                  /\ last' = Raised(url, g.exc, None, None, 0)
             ELSE \E x \in TryBlock(url, g.page, browsing_mode,
                                    cfg.html_parser_type) :
                    /\ pages' = PagesAfterTry(g, x.res).pages
                    /\ ctxPages' = PagesAfterTry(g, x.res).ctxPages
                    /\ callLog' = g.log \o x.log
                    /\ last' = x.res
    /\ done' = Bump(done, callLog')
    /\ calls' = calls + 1
    /\ UNCHANGED <<cfg, phase, browsing_mode, initLog, res, td, thr, fin,
                   fout>>

\* ------------------------------------------------------------------ __del__
\* scraper.py 254: "except Exception" catches every exception the try body
\* of __del__ can raise (browser errors and AttributeError alike).
DelCatches_BrowserErrorsOnly(e) == e \in {"Error", "TimeoutError"}

DelCatches(e) == TRUE

\* The resource a teardown call releases when it completes.
Releases(e) ==
    CASE e = "context_close" -> "context"
      [] e = "browser_close" -> "browser"
      [] e = "playwright_stop" -> "playwright"

\* scraper.py 115: self.context was assigned, that is, __init__ got past
\* the creation of the context.
HasContext ==
    /\ Index(initLog, "new_context") > 0
    /\ phase = "ready" \/ Index(initLog, "new_context") < Len(initLog)

\* scraper.py 249-253: the try body of __del__.  When self.context is
\* missing the first statement raises AttributeError.  Otherwise the three
\* closing calls run in order until one raises.
DelBody(hasContext) ==
    IF ~hasContext
    THEN {[log |-> <<>>, exc |-> "AttributeError"]}
    ELSE RunSteps(<<"context_close", "browser_close", "playwright_stop">>)

\* scraper.py 247-255: Scraper.__del__, when the engine is collected (also
\* an engine whose __init__ raised) or when it is called explicitly.  A
\* closing call that completes releases its resource; closing the context
\* closes its pages.
Del ==
    /\ phase \in {"ready", "failed"}
    /\ td.runs < MaxTeardowns
    /\ \E r \in DelBody(HasContext) :
          /\ td' = [runs |-> td.runs + 1, log |-> r.log,
                    exc |-> IF r.exc = None \/ DelCatches(r.exc)
                            THEN None ELSE r.exc]
          /\ res' = res \ {Releases(e) :
                            e \in {x \in {"context_close", "browser_close",
                                           "playwright_stop"} :
                                      Completed(r, x)}}
          /\ ctxPages' = IF Completed(r, "context_close") THEN {}
                         ELSE ctxPages
          /\ done' = Bump(done, r.log)
    /\ UNCHANGED <<cfg, phase, browsing_mode, pages, initLog, callLog, calls,
                   last, store, thr, fin, fout>>

\* An engine is built and used for a sequence of scrap() calls.
Next ==
    \/ Construct
    \/ \E url \in Urls : Scrap(url)

Spec == Init /\ [][Next]_vars

\* An engine is built, completely or not, and torn down: __del__ reads
\* nothing but the attributes __init__ assigned.
NextTeardown ==
    \/ Construct
    \/ Del

SpecTeardown == Init /\ [][NextTeardown]_vars

\* --------------------------------------------- scrap() from two callers
\* Two callers invoke scrap() on one engine and the scheduler switches
\* between them at the statements of _get_page.  Each caller is at one of:
\*   "idle"          outside scrap()
\*   "first_new"     scraper.py 265, after "if not self.pages" was true
\*   "restore"       scraper.py 271-302
\*   "first_append"  scraper.py 303-304
\*   "more_new"      scraper.py 312, after "if self.open_new_page_per_scrape"
\*   "more_append"   scraper.py 313
\*   "last"          scraper.py 315
\*   "goto"          scraper.py 343, page.goto(url) on the page obtained
\* thr[c].page is the caller's local variable "page", thr[c].n the number
\* of calls it made, thr[c].navigated the pages its calls navigated,
\* thr[c].raised whether one of its calls raised.
\* Number of scrap() calls the two callers make together.
MaxCallerCalls == 3

At(c, pc) == thr[c].pc = pc

Goes(c, pc) == thr' = [thr EXCEPT ![c].pc = pc]

Enters(c, pc) == thr' = [thr EXCEPT ![c].pc = pc, ![c].n = @ + 1]

\* A call of caller c ends in an exception.
Fails(c) == thr' = [thr EXCEPT ![c].pc = "idle", ![c].raised = TRUE]

\* scraper.py 336 and 263, 306: the caller enters scrap(), which calls
\* _get_page(), and tests the pool and the flag.
EnterGetPage(c) ==
    /\ phase = "ready"
    /\ td.runs = 0
    /\ At(c, "idle")
    /\ thr["A"].n + thr["B"].n < MaxCallerCalls
    /\ Enters(c, IF pages = <<>> THEN "first_new"
                 ELSE IF cfg.open_new_page_per_scrape THEN "more_new"
                 ELSE "last")
    /\ UNCHANGED <<cfg, phase, browsing_mode, pages, ctxPages, initLog,
                   callLog, done, calls, last, store, res, td, fin, fout>>

\* scraper.py 265 and 312: page = self.context.new_page().
NewPage(c) ==
    /\ thr[c].pc \in {"first_new", "more_new"}
    /\ done' = Bump(done, <<"new_page">>)
    /\ \/ /\ Fails(c)
          /\ UNCHANGED ctxPages
       \/ /\ ctxPages' = ctxPages \cup {NewPageId(ctxPages)}
          /\ thr' = [thr EXCEPT
                ![c].page = NewPageId(ctxPages),
                ![c].pc = IF thr[c].pc = "more_new" THEN "more_append"
                          ELSE IF NeedsStorage(cfg.session_data)
                               THEN "restore"
                          ELSE "first_append"]
    /\ UNCHANGED <<cfg, phase, browsing_mode, pages, initLog, callLog,
                   calls, last, store, res, td, fin, fout>>

\* scraper.py 271-302: the storage restoration on the caller's new page.
RestoreStorage(c) ==
    /\ At(c, "restore")
    /\ \E r \in Restore(cfg.session_data) :
          /\ done' = Bump(done, r.log)
          /\ store' = r.store
          /\ IF r.exc # None THEN Fails(c) ELSE Goes(c, "first_append")
    /\ UNCHANGED <<cfg, phase, browsing_mode, pages, ctxPages, initLog,
                   callLog, calls, last, res, td, fin, fout>>

\* scraper.py 303-304: self.pages.append(page); return page.
\* scraper.py 313: self.pages.append(page).
AppendPage(c) ==
    /\ thr[c].pc \in {"first_append", "more_append"}
    /\ pages' = Append(pages, thr[c].page)
    /\ Goes(c, IF At(c, "first_append") THEN "goto" ELSE "last")
    /\ UNCHANGED <<cfg, phase, browsing_mode, ctxPages, initLog, callLog,
                   done, calls, last, store, res, td, fin, fout>>

\* scraper.py 315: return self.pages[-1].
ReturnLast(c) ==
    /\ At(c, "last")
    /\ thr' = [thr EXCEPT ![c].page = pages[Len(pages)], ![c].pc = "goto"]
    /\ UNCHANGED <<cfg, phase, browsing_mode, pages, ctxPages, initLog,
                   callLog, done, calls, last, store, res, td, fin, fout>>

\* scraper.py 343: page.goto(url) on the page _get_page returned.  What
\* follows in scrap() touches that page only; the call is over.
Navigate(c) ==
    /\ At(c, "goto")
    /\ done' = Bump(done, <<"goto_url">>)
    /\ thr' = [thr EXCEPT
          ![c].navigated = Append(@, thr[c].page), ![c].pc = "idle"]
    /\ UNCHANGED <<cfg, phase, browsing_mode, pages, ctxPages, initLog,
                   callLog, calls, last, store, res, td, fin, fout>>

NextConc ==
    \/ Construct
    \/ \E c \in Callers :
          \/ EnterGetPage(c)
          \/ NewPage(c)
          \/ RestoreStorage(c)
          \/ AppendPage(c)
          \/ ReturnLast(c)
          \/ Navigate(c)

SpecConc == Init /\ [][NextConc]_vars

\* ------------------------------------------------------ fingerprint reads
\* A complete fingerprint profile; each value differs from the fallback
\* the code uses for that field.
FullProfile ==
    [userAgent |-> "Mozilla/5.0 (Windows NT 10.0; Win64; x64)",
     language |-> "fr-FR",
     languages |-> <<"fr-FR", "fr">>,
     timezone |-> "Europe/Paris",
     hardwareConcurrency |-> 4,
     deviceMemory |-> 16,
     platform |-> "Win32",
     webglVendor |-> "Google Inc. (NVIDIA)",
     webglRenderer |-> "ANGLE (NVIDIA)",
     screenResolution |-> [width |-> 1366, height |-> 768, colorDepth |-> 30]]

Restrict(f, keys) == [k \in keys |-> f[k]]

\* The profiles read: FullProfile with any subset of its fields missing,
\* the screenResolution record and any subset of its members included.
Profiles ==
    {Restrict(FullProfile, top) :
        top \in SUBSET (DOMAIN FullProfile \ {"screenResolution"})}
    \cup
    {[k \in top \cup {"screenResolution"} |->
        IF k = "screenResolution"
        THEN Restrict(FullProfile.screenResolution, members)
        ELSE FullProfile[k]] :
        top \in SUBSET (DOMAIN FullProfile \ {"screenResolution"}),
        members \in SUBSET DOMAIN FullProfile.screenResolution}

\* A read that gives the default whatever the dict holds.
Get_DefaultOnly(dict, key, default) == default

\* dict.get(key, default).
Get(dict, key, default) ==
    IF key \in DOMAIN dict THEN dict[key] ELSE default

\* The empty dict.
EmptyDict == [k \in {} |-> None]

\* scraper.py 113-144: the values _create_browser_context reads from the
\* fingerprint and hands to browser.new_context().
ContextOptions(browser_fingerprint) ==
    LET screen == Get(browser_fingerprint, "screenResolution", EmptyDict)
    IN  [viewport |-> [width |-> Get(screen, "width", 1920),
                       height |-> Get(screen, "height", 1080)],
         screen |-> [width |-> Get(screen, "width", 1920),
                     height |-> Get(screen, "height", 1080)],
         user_agent |->
             Get(browser_fingerprint, "userAgent",
                 "Mozilla/5.0 (X11; Linux x86_64) AppleWebKit/537.36"),
         locale |-> Get(browser_fingerprint, "language", "en-US"),
         timezone_id |-> Get(browser_fingerprint, "timezone", "Asia/Calcutta"),
         accept_language |->
             <<Get(browser_fingerprint, "language", "en-US"), ",en;q=0.9">>]

\* scraper.py 207-240: the values _apply_anti_detection_scripts reads from
\* the fingerprint and writes into the init script.
ScriptValues(browser_fingerprint) ==
    [languages |-> Get(browser_fingerprint, "languages", <<"en-US">>),
     hardwareConcurrency |->
         Get(browser_fingerprint, "hardwareConcurrency", 8),
     deviceMemory |-> Get(browser_fingerprint, "deviceMemory", 8),
     platform |-> Get(browser_fingerprint, "platform", "Linux x86_64"),
     colorDepth |->
         Get(Get(browser_fingerprint, "screenResolution", EmptyDict),
             "colorDepth", 24),
     pixelDepth |->
         Get(Get(browser_fingerprint, "screenResolution", EmptyDict),
             "colorDepth", 24),
     webglVendor |->
         Get(browser_fingerprint, "webglVendor", "Google Inc. (Intel)"),
     webglRenderer |->
         Get(browser_fingerprint, "webglRenderer", "ANGLE (Intel)")]

\* scraper.py 73-80 and 100: the engine reads the profile in effect
\* (session_data.fingerprint or the default one) in both places.
ReadFingerprint ==
    /\ fin = NoLibCall
    /\ \E profile \in Profiles :
          /\ fin' = [op |-> "fingerprint", arg |-> profile]
          /\ fout' = [context |-> ContextOptions(profile),
                      script |-> ScriptValues(profile)]
    /\ UNCHANGED <<cfg, phase, browsing_mode, pages, ctxPages, initLog,
                   callLog, done, calls, last, store, res, td, thr>>

\* --------------------------------------------------------- normalize_links
\* A URL string is the sequence of its tokens: the delimiters ":", "/",
\* "?", "#" and names (a scheme, a host, a path segment, a query, a
\* fragment identifier).  The empty string is <<>>; two strings are equal
\* when their sequences are.
Delims == {":", "/", "?", "#"}

\* urllib.parse.uses_relative and uses_netloc, for the schemes read here
\* ("" is no scheme; mailto is in neither list).
uses_relative == {"", "http", "https"}

uses_netloc == {"", "http", "https"}

\* Index of the first token of s that is in set, Len(s) + 1 if none.
RECURSIVE FindFrom(_, _, _)
FindFrom(s, set, i) ==
    IF i > Len(s) THEN Len(s) + 1
    ELSE IF s[i] \in set THEN i ELSE FindFrom(s, set, i + 1)

Find(s, set) == FindFrom(s, set, 1)

\* s[i:] of Python.
From(s, i) == SubSeq(s, i, Len(s))

\* urllib.parse.urlsplit(url, scheme): the scheme before the first ":",
\* the netloc after a leading "//", then the fragment after the first "#",
\* the query after the first "?", and the path.
urlsplit(url, scheme) ==
    LET hasScheme == Len(url) >= 2 /\ url[2] = ":" /\ url[1] \notin Delims
        r1 == IF hasScheme THEN From(url, 3) ELSE url
        hasNetloc == Len(r1) >= 2 /\ r1[1] = "/" /\ r1[2] = "/"
        n == Find(From(r1, 3), {"/", "?", "#"})
        r2 == IF hasNetloc THEN From(From(r1, 3), n) ELSE r1
        f == Find(r2, {"#"})
        r3 == SubSeq(r2, 1, f - 1)
        q == Find(r3, {"?"})
    IN  [scheme |-> IF hasScheme THEN url[1] ELSE scheme,
         netloc |-> IF hasNetloc THEN SubSeq(From(r1, 3), 1, n - 1)
                    ELSE <<>>,
         path |-> SubSeq(r3, 1, q - 1),
         query |-> From(r3, q + 1),
         fragment |-> From(r2, f + 1)]

\* urllib.parse.urlunsplit: an empty query or fragment is not written.
urlunsplit(c) ==
    LET rooted == IF c.path # <<>> /\ c.path[1] # "/"
                  THEN <<"/">> \o c.path ELSE c.path
        u1 == IF c.netloc # <<>>
                 \/ (/\ c.scheme # ""
                     /\ c.scheme \in uses_netloc
                     /\ ~(/\ Len(c.path) >= 2
                          /\ c.path[1] = "/"
                          /\ c.path[2] = "/"))
              THEN <<"/", "/">> \o c.netloc \o rooted
              ELSE c.path
        u2 == IF c.scheme # "" THEN <<c.scheme, ":">> \o u1 ELSE u1
        u3 == IF c.query # <<>> THEN u2 \o <<"?">> \o c.query ELSE u2
    IN  IF c.fragment # <<>> THEN u3 \o <<"#">> \o c.fragment ELSE u3

\* path.split('/'): the segments of a path, "" for an empty one.
RECURSIVE Split(_)
Split(path) ==
    LET i == Find(path, {"/"})
        seg == IF i = 1 THEN "" ELSE path[1]
    IN  IF path = <<>> THEN <<"">>
        ELSE IF i > Len(path) THEN <<seg>>
        ELSE <<seg>> \o Split(From(path, i + 1))

\* '/'.join(segments).
RECURSIVE Join(_)
Join(segments) ==
    IF segments = <<>> THEN <<>>
    ELSE (IF Head(segments) = "" THEN <<>> ELSE <<Head(segments)>>)
         \o (IF Len(segments) > 1 THEN <<"/">> \o Join(Tail(segments))
             ELSE <<>>)

\* urljoin's loop over the segments: ".." pops, "." is skipped.
RECURSIVE RemoveDots(_, _)
RemoveDots(segments, resolved) ==
    IF segments = <<>> THEN resolved
    ELSE IF Head(segments) = ".."
    THEN RemoveDots(Tail(segments),
                    SubSeq(resolved, 1, Len(resolved) - 1))
    ELSE IF Head(segments) = "."
    THEN RemoveDots(Tail(segments), resolved)
    ELSE RemoveDots(Tail(segments), Append(resolved, Head(segments)))

\* segments[1:-1] = filter(None, segments[1:-1]).
DropEmptyMiddle(segments) ==
    IF Len(segments) < 2 THEN segments
    ELSE <<Head(segments)>>
         \o SelectSeq(SubSeq(segments, 2, Len(segments) - 1),
                      LAMBDA x : x # "")
         \o <<segments[Len(segments)]>>

\* urllib.parse.urljoin(base, url).
urljoin(base, url) ==
    LET b == urlsplit(base, "")
        u == urlsplit(url, b.scheme)
        netloc == IF u.scheme \in uses_netloc THEN b.netloc ELSE u.netloc
        split == Split(b.path)
        base_parts == IF split[Len(split)] # ""
                      THEN SubSeq(split, 1, Len(split) - 1) ELSE split
        segments == IF u.path[1] = "/" THEN Split(u.path)
                    ELSE DropEmptyMiddle(base_parts \o Split(u.path))
        dotted == segments[Len(segments)] \in {".", ".."}
        resolved == RemoveDots(segments, <<>>)
                    \o (IF dotted THEN <<"">> ELSE <<>>)
        joined == Join(resolved)
    IN  IF base = <<>> THEN url
        ELSE IF url = <<>> THEN base
        ELSE IF u.scheme # b.scheme \/ u.scheme \notin uses_relative
        THEN url
        ELSE IF u.scheme \in uses_netloc /\ u.netloc # <<>>
        THEN urlunsplit(u)
        ELSE IF u.path = <<>>
        THEN urlunsplit([scheme |-> u.scheme, netloc |-> netloc,
                         path |-> b.path,
                         query |-> IF u.query = <<>> THEN b.query
                                   ELSE u.query,
                         fragment |-> u.fragment])
        ELSE urlunsplit([scheme |-> u.scheme, netloc |-> netloc,
                         path |-> IF joined = <<>> THEN <<"/">>
                                  ELSE joined,
                         query |-> u.query, fragment |-> u.fragment])

\* urldefrag(url)[0] leaving the fragment in place.
urldefrag_KeepFragment(url) == url

\* urllib.parse.urldefrag(url)[0]: a URL with a "#" is split and written
\* again without its fragment, any other is returned as it is.
urldefrag(url) ==
    IF Find(url, {"#"}) <= Len(url)
    THEN urlunsplit([urlsplit(url, "") EXCEPT !.fragment = <<>>])
    ELSE url

\* utils.py 17-23: the first occurrence of each element, in order.
RECURSIVE Unique(_, _)
Unique(normalized, result) ==
    IF normalized = <<>> THEN result
    ELSE IF \E i \in 1..Len(result) : result[i] = Head(normalized)
    THEN Unique(Tail(normalized), result)
    ELSE Unique(Tail(normalized), Append(result, Head(normalized)))

\* utils.py 3-23: normalize_links(base_url, links).
normalize_links(base_url, links) ==
    LET normalized == [i \in 1..Len(links) |->
                          urldefrag(urljoin(base_url, links[i]))]
    IN  Unique(normalized, <<>>)

\* Length of the link lists normalized.
MaxLinks == 3

\* "https://a.com/x/", "https://a.com/x/?", "https://a.com/x/y?q" and
\* "https://a.com".
BaseUrls ==
    {<<"https", ":", "/", "/", "a.com", "/", "x", "/">>,
     <<"https", ":", "/", "/", "a.com", "/", "x", "/", "?">>,
     <<"https", ":", "/", "/", "a.com", "/", "x", "/", "y", "?", "q">>,
     <<"https", ":", "/", "/", "a.com">>}

\* "", "y", "/z#frag", "https://a.com/y", "#frag", "../z", ".",
\* "//b.org/y", "mailto:m" and "http://b.org/y#frag".
LinkPool ==
    {<<>>,
     <<"y">>,
     <<"/", "z", "#", "frag">>,
     <<"https", ":", "/", "/", "a.com", "/", "y">>,
     <<"#", "frag">>,
     <<"..", "/", "z">>,
     <<".">>,
     <<"/", "/", "b.org", "/", "y">>,
     <<"mailto", ":", "m">>,
     <<"http", ":", "/", "/", "b.org", "/", "y", "#", "frag">>}

LinkLists == UNION {[1..n -> LinkPool] : n \in 0..MaxLinks}

\* A call of normalize_links on a base URL and a list of links.
NormalizeLinks ==
    /\ fin = NoLibCall
    /\ \E base_url \in BaseUrls, links \in LinkLists :
          /\ fin' = [op |-> "normalize_links",
                     arg |-> [base_url |-> base_url, links |-> links]]
          /\ fout' = normalize_links(base_url, links)
    /\ UNCHANGED <<cfg, phase, browsing_mode, pages, ctxPages, initLog,
                   callLog, done, calls, last, store, res, td, thr>>

\* --------------------------------------------------- HTMLParser, direct
\* Values passed as html: "", two documents, None, b"" and b"<p>".
HtmlValues ==
    {PyStr(<<>>), PyStr(<<"<p>">>), PyStr(<<"<a>", "text">>), PyNone,
     [type |-> "bytes", val |-> <<>>], [type |-> "bytes", val |-> <<"<p>">>]}

\* html_parser.py 21-26: the keyword arguments of a call, html_parser
\* given or left to its default.
HTMLParserCalls ==
    [base_url : Urls, html : HtmlValues]
    \cup [base_url : Urls, html : HtmlValues, html_parser : HTMLParserType]

\* A construction of HTMLParser.
NewHTMLParser ==
    /\ fin = NoLibCall
    /\ \E kwargs \in HTMLParserCalls :
          /\ fin' = [op |-> "HTMLParser", arg |-> kwargs]
          /\ fout' = HTMLParser_init(kwargs)
    /\ UNCHANGED <<cfg, phase, browsing_mode, pages, ctxPages, initLog,
                   callLog, done, calls, last, store, res, td, thr>>

\* The functions are called on their own, no engine built.
InitLib ==
    /\ Init
    /\ cfg = [open_new_page_per_scrape |-> FALSE, proxy |-> FALSE,
              session_data |-> NoSession, browsing_mode |-> None,
              html_parser_type |-> "html5lib"]

NextLib ==
    \/ ReadFingerprint
    \/ NormalizeLinks
    \/ NewHTMLParser

SpecLib == InitLib /\ [][NextLib]_vars

\* ---------------------------------------------------------- launch options
\* Python dicts are objects: heap maps the name of each dict object to its
\* content, and a variable or attribute holds a name.  The two maps a
\* caller can pass: the module constant BROWSER_LAUNCH_OPTIONS, which is
\* the default of the parameter, and a map of the caller's own.
PassedMaps == {"BROWSER_LAUNCH_OPTIONS", "caller_options"}

\* Names of the objects the constructions create.
FreshNames == <<"copy1", "copy2", "copy3", "copy4">>

\* Number of engines constructed one after the other.
MaxEngines == 2

\* Contents of a launch-options map: with or without a "headless" entry.
LaunchMaps ==
    {[args |-> <<"--no-sandbox">>],
     [args |-> <<"--no-sandbox">>, headless |-> TRUE],
     [args |-> <<"--no-sandbox">>, headless |-> FALSE],
     [k \in {} |-> None]}

\* The construction working on the map passed in, no copy made.
Deepcopy_Alias(heap, name, fresh) == [heap |-> heap, ref |-> name]

\* copy.deepcopy(x): a new object with the content of x (contents are
\* values here, so the copy shares nothing with x).
Deepcopy(heap, name, fresh) ==
    [heap |-> [o \in DOMAIN heap \cup {fresh} |->
                  IF o = fresh THEN heap[name] ELSE heap[o]],
     ref |-> fresh]

\* dict.update({key: value}) on the object called name.
Update(heap, name, key, value) ==
    [heap EXCEPT ![name] =
        [k \in DOMAIN heap[name] \cup {key} |->
            IF k = key THEN value ELSE heap[name][k]]]

\* scraper.py 58-60: the heap after, and the object self.browser_launch_options
\* names.
LaunchOptions(heap, browser_launch_options, headless, fresh) ==
    LET c == Deepcopy(heap, browser_launch_options, fresh)
    IN  [heap |-> Update(c.heap, c.ref, "headless", headless),
         ref |-> c.ref]

\* The module is imported and the caller makes its own map.
ImportModule ==
    /\ fin = NoLibCall
    /\ \E heap \in [PassedMaps -> LaunchMaps] :
          /\ fin' = [op |-> "Scraper", arg |-> heap]
          /\ fout' = [heap |-> heap, engines |-> <<>>]
    /\ UNCHANGED <<cfg, phase, browsing_mode, pages, ctxPages, initLog,
                   callLog, done, calls, last, store, res, td, thr>>

\* scraper.py 21-60: Scraper(headless=..., browser_launch_options=...) up to
\* the assignment of self.browser_launch_options.  When
\* sync_playwright().start() raises (line 56) the construction ends before
\* the options are read.
NewEngine ==
    /\ fin # NoLibCall
    /\ fin.op = "Scraper"
    /\ Len(fout.engines) < MaxEngines
    /\ \E headless \in BOOLEAN, passed \in PassedMaps :
          \/ fout' = [fout EXCEPT !.engines =
                 Append(@, [headless |-> headless, passed |-> passed,
                            built |-> FALSE, options |-> None])]
          \/ LET o == LaunchOptions(fout.heap, passed, headless,
                                    FreshNames[Len(fout.engines) + 1])
             IN  fout' = [heap |-> o.heap,
                          engines |->
                             Append(fout.engines,
                                    [headless |-> headless,
                                     passed |-> passed, built |-> TRUE,
                                     options |-> o.ref])]
    /\ UNCHANGED <<cfg, phase, browsing_mode, pages, ctxPages, initLog,
                   callLog, done, calls, last, store, res, td, thr, fin>>

NextLaunch ==
    \/ ImportModule
    \/ NewEngine

\* Engines are constructed one after the other on the same two maps.
SpecLaunch == InitLib /\ [][NextLaunch]_vars

\* ==================================================================== claims
\* A scrap() call has been made and has ended.
Called == last.outcome # "none"

\* A post-load step (the scroll evaluation or the pause) raised.
PostLoadRaised ==
    /\ last.nav = "loaded"
    /\ callLog[Len(callLog)] \in {"eval_scroll", "wait"}

\* C1: every scrap() call ends by returning a parsed-content handle or by
\* raising ScrapError with the underlying cause chained; no other exception
\* type escapes.
C1_ReturnsOrScrapError ==
    Called =>
        \/ last.outcome = "return"
        \/ /\ last.outcome = "raise"
           /\ last.exc = "ScrapError"
           /\ last.cause # None

\* C2: when the navigation completes before the deadline, scrap() returns a
\* handle built from the page's content, with the requested URL as base URL
\* and the engine's configured parser kind.  (Stated for the calls in which
\* no browser call raised: every exception a browser call raises in the try
\* body becomes the cause "Error".)
C2_LoadedReturnsHandle ==
    (Called /\ last.nav = "loaded" /\ last.cause # "Error") =>
        /\ last.outcome = "return"
        /\ last.base_url = last.url
        /\ last.html = Content(last.url, "full")
        /\ last.parser = cfg.html_parser_type

\* C3: when the navigation exceeds the deadline, scrap() does not fail: it
\* returns the content currently available, flagged as partial.  (Stated
\* for the calls in which page.content() itself did not raise.)
C3_TimeoutReturnsPartial ==
    (Called /\ last.nav = "timeout" /\ last.exc # "Error") =>
        /\ last.outcome = "return"
        /\ last.html = Content(last.url, "partial")
        /\ "partial" \in last.attrs

\* C4: when the navigation or a post-load evaluation raises an exception
\* other than the timeout error, scrap() raises ScrapError naming the URL,
\* with the original exception as cause, and the navigation was attempted
\* exactly once in that call.
C4_FailureWrappedOnce ==
    (Called /\ (last.nav = "failed" \/ PostLoadRaised)) =>
        /\ last.outcome = "raise"
        /\ last.exc = "ScrapError"
        /\ last.msg_url = last.url
        /\ last.cause = "Error"
        /\ Count(callLog, "goto_url") = 1

\* C4 witness: a second call whose scroll evaluation raised after the page
\* loaded, reported as ScrapError.
C4_Witness ==
    /\ calls = 2
    /\ PostLoadRaised
    /\ last.exc = "ScrapError"
    /\ last.url = "u2"

\* C5: the storage restoration (navigate a page to base_url, then set the
\* storage keys) is performed once per engine, whatever the sequence of
\* scrap() calls; base_url is never navigated to a second time.
C5_StorageRestoredOnce ==
    /\ done["goto_base"] <= 1
    /\ done["eval_local"] <= 1
    /\ done["eval_session"] <= 1

\* C6: the browsing mode fixed at construction is the explicit mode if one
\* was given, else FAST with a proxy (with or without a session), else
\* HUMAN_LIKE with a session, else HUMAN_LIKE.
C6_BrowsingModeTable ==
    phase = "ready" =>
        /\ cfg.browsing_mode = "FAST" => browsing_mode = "FAST"
        /\ cfg.browsing_mode = "HUMAN_LIKE" => browsing_mode = "HUMAN_LIKE"
        /\ (cfg.browsing_mode = None /\ cfg.proxy
              /\ cfg.session_data.present) => browsing_mode = "FAST"
        /\ (cfg.browsing_mode = None /\ cfg.proxy
              /\ ~cfg.session_data.present) => browsing_mode = "FAST"
        /\ (cfg.browsing_mode = None /\ ~cfg.proxy
              /\ cfg.session_data.present) => browsing_mode = "HUMAN_LIKE"
        /\ (cfg.browsing_mode = None /\ ~cfg.proxy
              /\ ~cfg.session_data.present) => browsing_mode = "HUMAN_LIKE"

\* C6 witness: an engine built with a proxy and a session and no explicit
\* mode runs in FAST mode and has been used.
C6_Witness ==
    /\ phase = "ready"
    /\ cfg.browsing_mode = None
    /\ cfg.proxy
    /\ cfg.session_data.present
    /\ browsing_mode = "FAST"
    /\ calls >= 1

\* C7 as stated: every scrap() call on a HUMAN_LIKE engine performs exactly
\* one scroll-and-pause, every call on a FAST engine none.  (Stated for the
\* calls that got a page and started the navigation.)
C7_OneScrollPerCall ==
    (Called /\ last.nav # "none") =>
        /\ browsing_mode = "HUMAN_LIKE" =>
              /\ Count(callLog, "eval_scroll") = 1
              /\ Count(callLog, "wait") = 1
        /\ browsing_mode = "FAST" =>
              /\ Count(callLog, "eval_scroll") = 0
              /\ Count(callLog, "wait") = 0

\* C7 amended: a scrap() call on a HUMAN_LIKE engine whose navigation
\* completed before the deadline issues exactly one scroll, right after the
\* navigation, followed by exactly one pause unless the scroll raised; a
\* call whose navigation timed out, failed or was never reached, and every
\* call on a FAST engine, issues no scroll and no pause.
C7_ScrollOnlyWhenLoaded ==
    Called =>
        /\ (browsing_mode = "HUMAN_LIKE" /\ last.nav = "loaded") =>
              /\ Count(callLog, "eval_scroll") = 1
              /\ Index(callLog, "eval_scroll")
                   = Index(callLog, "goto_url") + 1
              /\ Count(callLog, "wait")
                   = (IF callLog[Len(callLog)] = "eval_scroll" THEN 0 ELSE 1)
              /\ Count(callLog, "wait") = 1 =>
                   Index(callLog, "wait") = Index(callLog, "eval_scroll") + 1
        /\ (browsing_mode = "FAST" \/ last.nav # "loaded") =>
              /\ Count(callLog, "eval_scroll") = 0
              /\ Count(callLog, "wait") = 0

\* C7 witness: a loaded call on a HUMAN_LIKE engine that scrolled and paused.
C7_Witness ==
    /\ browsing_mode = "HUMAN_LIKE"
    /\ last.nav = "loaded"
    /\ Count(callLog, "eval_scroll") = 1
    /\ Count(callLog, "wait") = 1
    /\ calls = 2

\* The storage restoration, when the session needs one, has been issued in
\* full, and in the latest call it precedes the navigation to the URL.
StorageBeforeNavigation ==
    /\ NeedsStorage(cfg.session_data) =>
          /\ done["goto_base"] >= 1
          /\ cfg.session_data.localStorage # {} => done["eval_local"] >= 1
          /\ cfg.session_data.sessionStorage # {} =>
                done["eval_session"] >= 1
    /\ \A e \in {"goto_base", "eval_local", "eval_session"} :
          Index(callLog, e) > 0 /\ Index(callLog, "goto_url") > 0 =>
              Index(callLog, e) < Index(callLog, "goto_url")

\* C8 as stated: once a scraped URL has been navigated to, the context was
\* created first, then the anti-detection scripts were installed, then the
\* cookies were injected, and the storage was restored before the
\* navigation.
C8_ContextScriptsThenSession ==
    done["goto_url"] >= 1 =>
        /\ 0 < Index(initLog, "new_context")
        /\ Index(initLog, "new_context") < Index(initLog, "add_init_script")
        /\ Index(initLog, "add_cookies") > 0 =>
              Index(initLog, "add_init_script") < Index(initLog, "add_cookies")
        /\ StorageBeforeNavigation

\* C8 amended: once a scraped URL has been navigated to, the context was
\* created first, then the cookies (if the session has any) were injected,
\* then the anti-detection scripts were installed, and the storage
\* restoration (if the session has storage) was issued before the
\* navigation.
C8_ContextCookiesScriptsStorage ==
    done["goto_url"] >= 1 =>
        /\ 0 < Index(initLog, "new_context")
        /\ Index(initLog, "new_context") < Index(initLog, "add_init_script")
        /\ (cfg.session_data.present /\ cfg.session_data.cookies # <<>>) =>
              /\ Index(initLog, "new_context") < Index(initLog, "add_cookies")
              /\ Index(initLog, "add_cookies")
                   < Index(initLog, "add_init_script")
        /\ ~(cfg.session_data.present /\ cfg.session_data.cookies # <<>>) =>
              Index(initLog, "add_cookies") = 0
        /\ StorageBeforeNavigation

\* C8 witness: the first call of an engine with cookies and both storage
\* maps restored the storage and went on to navigate to the URL.
C8_Witness ==
    /\ cfg.session_data.cookies # <<>>
    /\ cfg.session_data.localStorage # {}
    /\ cfg.session_data.sessionStorage # {}
    /\ Index(initLog, "add_cookies") > 0
    /\ Index(callLog, "eval_session") > 0
    /\ Index(callLog, "goto_url") > Index(callLog, "eval_session")

\* C9: with open_new_page_per_scrape false the pool never holds more than
\* one page, that page is the first one the engine created, and it is the
\* page every call navigates.
C9_SingleRetainedPage ==
    ~cfg.open_new_page_per_scrape =>
        /\ Len(pages) <= 1
        /\ pages # <<>> => pages[1] = 1
        /\ last.page # 0 => last.page = 1

\* C10: with open_new_page_per_scrape true, after k scrap() calls the pool
\* holds k pages.  (Stated for the engines on which every call so far got
\* its page opened by the context.)
C10_OnePagePerCall ==
    (cfg.open_new_page_per_scrape /\ Cardinality(ctxPages) = calls) =>
        Len(pages) = calls

\* A teardown has run.
TornDown == td.runs >= 1

\* C12: after teardown has run, the context, the browser and the driver
\* process are all released, also when a closing call raised and when the
\* construction failed after the driver process was started.
C12_TeardownReleasesAll ==
    TornDown => res = {}

\* C13: teardown never lets an exception escape, whichever closing step
\* fails, however many times it is run, and also on an engine whose
\* construction did not complete.
C13_TeardownNeverRaises ==
    TornDown => td.exc = None

\* C13 witness: a second teardown of an engine whose construction failed
\* before the context existed.
C13_Witness ==
    /\ td.runs = 2
    /\ phase = "failed"
    /\ ~HasContext
    /\ td.exc = None

\* The session carries a non-empty cookie list.
HasCookies == cfg.session_data.present /\ cfg.session_data.cookies # <<>>

\* C14 as stated: without a session, or with an empty cookie list, no
\* cookies are added and base_url is never navigated to.
C14_NoCookiesNoBaseNavigation ==
    ~HasCookies =>
        /\ done["add_cookies"] = 0
        /\ done["goto_base"] = 0

\* C14 amended: with a non-empty cookie list the cookies are added exactly
\* once, by the constructor, before any page is created or navigated;
\* without a session no cookies are added and base_url is never navigated
\* to; with a session whose cookie list is empty no cookies are added (its
\* storage, if any, is still restored through base_url).
C14_CookiesOnceBeforePages ==
    /\ HasCookies =>
          /\ done["add_cookies"] <= 1
          /\ phase = "ready" => done["add_cookies"] = 1
          /\ done["new_page"] >= 1 =>
                /\ Count(initLog, "add_cookies") = 1
                /\ Count(callLog, "add_cookies") = 0
    /\ ~HasCookies => done["add_cookies"] = 0
    /\ ~cfg.session_data.present => done["goto_base"] = 0

\* C14 witness: an engine with cookies has added them and has since
\* opened a page and navigated it.
C14_Witness ==
    /\ HasCookies
    /\ done["add_cookies"] = 1
    /\ done["new_page"] >= 1
    /\ done["goto_url"] >= 1

\* Every page navigated by a scrap() call, over both callers.
NavigatedPages ==
    thr["A"].navigated \o thr["B"].navigated

\* C11: with open_new_page_per_scrape true and no call failing, no page
\* is navigated by two scrap() calls of the two interleaved callers, and
\* the storage restoration of the first page is performed once.
C11_DistinctPagesRestoredOnce ==
    (/\ cfg.open_new_page_per_scrape
     /\ \A c \in Callers : ~thr[c].raised)
    => /\ \A i, j \in 1..Len(NavigatedPages) :
             i # j => NavigatedPages[i] # NavigatedPages[j]
       /\ done["goto_base"] <= 1

\* C19: an engine owns at most one context: it is created exactly once, by
\* the constructor, and no scrap(), page-pool or restoration step creates
\* another.
C19_SingleContext ==
    /\ done["new_context"] <= 1
    /\ phase = "ready" => done["new_context"] = 1
    /\ "context" \in res => done["new_context"] = 1
    /\ Count(callLog, "new_context") = 0

\* C19 witness: an engine that opened two pages still has its one context.
C19_Witness ==
    /\ phase = "ready"
    /\ Len(pages) >= 2
    /\ done["new_context"] = 1
    /\ "context" \in res

\* The browser call e of the latest scrap() completed: a later call
\* follows it in callLog.
CallCompleted(e) ==
    /\ Index(callLog, e) > 0
    /\ Index(callLog, e) < Len(callLog)

\* The keys the latest restoration tried in the given store, in order.
Tried(kind) ==
    LET part == SelectSeq(store, LAMBDA x : x.store = kind)
    IN  [i \in 1..Len(part) |-> part[i].key]

\* Every browser call of the restoration was issued and completed.
RestorationRan ==
    /\ CallCompleted("goto_base")
    /\ (Index(callLog, "eval_local") > 0) => CallCompleted("eval_local")
    /\ (Index(callLog, "eval_session") > 0) => CallCompleted("eval_session")
    /\ (cfg.session_data.localStorage # {}) =>
          Index(callLog, "eval_local") > 0
    /\ (cfg.session_data.sessionStorage # {}) =>
          Index(callLog, "eval_session") > 0

\* C20: the restoration navigates to base_url before any key is set, sets
\* the localStorage keys before the sessionStorage keys, and a key that
\* fails to be set does not stop the others: every key of both maps is
\* tried and the restoration completes, so that the page is retained and
\* used.
C20_RestorationOrderAndBestEffort ==
    /\ store # <<>> => Index(callLog, "goto_base") = 2
    /\ Index(callLog, "eval_local") > 0 =>
          Index(callLog, "eval_local") = Index(callLog, "goto_base") + 1
    /\ Index(callLog, "eval_session") > 0 =>
          /\ Index(callLog, "eval_session") > Index(callLog, "goto_base")
          /\ Index(callLog, "eval_session") > Index(callLog, "eval_local")
    /\ \A i, j \in 1..Len(store) :
          (store[i].store = "localStorage"
             /\ store[j].store = "sessionStorage") => i < j
    /\ CallCompleted("eval_local") =>
          Tried("localStorage") = KeysOf(cfg.session_data.localStorage)
    /\ CallCompleted("eval_session") =>
          Tried("sessionStorage") = KeysOf(cfg.session_data.sessionStorage)
    /\ RestorationRan =>
          /\ pages # <<>>
          /\ last.page = pages[Len(pages)]
          /\ Len(store) = Len(KeysOf(cfg.session_data.localStorage))
                          + Len(KeysOf(cfg.session_data.sessionStorage))

\* C20 witness: the first localStorage key failed to be set, the three
\* other keys were still tried and the page went on to be navigated.
C20_Witness ==
    /\ Len(store) = 4
    /\ ~store[1].ok
    /\ store[1].store = "localStorage"
    /\ store[4].store = "sessionStorage"
    /\ last.page # 0
    /\ Index(callLog, "goto_url") > 0

\* The value every read of field key must give on the profile of fin.
Resolved(dict, key, fallback) ==
    IF key \in DOMAIN dict THEN FullProfile[key] ELSE fallback

ResolvedScreen(dict, key, fallback) ==
    IF "screenResolution" \in DOMAIN dict
       /\ key \in DOMAIN dict["screenResolution"]
    THEN FullProfile.screenResolution[key] ELSE fallback

\* C15: whatever fields of the profile are missing, every value the
\* context builder and the script injector read from it is the supplied
\* value when the field is present and the code's fallback otherwise.
C15_FingerprintResolves ==
    fin.op = "fingerprint" =>
      LET p == fin.arg
          c == fout.context
          s == fout.script
      IN  /\ c.viewport.width = ResolvedScreen(p, "width", 1920)
          /\ c.viewport.height = ResolvedScreen(p, "height", 1080)
          /\ c.screen = c.viewport
          /\ c.user_agent
               = Resolved(p, "userAgent",
                     "Mozilla/5.0 (X11; Linux x86_64) AppleWebKit/537.36")
          /\ c.locale = Resolved(p, "language", "en-US")
          /\ c.timezone_id = Resolved(p, "timezone", "Asia/Calcutta")
          /\ c.accept_language[1] = c.locale
          /\ s.languages = Resolved(p, "languages", <<"en-US">>)
          /\ s.hardwareConcurrency = Resolved(p, "hardwareConcurrency", 8)
          /\ s.deviceMemory = Resolved(p, "deviceMemory", 8)
          /\ s.platform = Resolved(p, "platform", "Linux x86_64")
          /\ s.colorDepth = ResolvedScreen(p, "colorDepth", 24)
          /\ s.pixelDepth = s.colorDepth
          /\ s.webglVendor
               = Resolved(p, "webglVendor", "Google Inc. (Intel)")
          /\ s.webglRenderer = Resolved(p, "webglRenderer", "ANGLE (Intel)")

\* C15 witness: a profile that has screenResolution without its width and
\* lacks userAgent was read: the width and the user agent are fallbacks,
\* the height is the supplied one.
C15_Witness ==
    /\ fin.op = "fingerprint"
    /\ "screenResolution" \in DOMAIN fin.arg
    /\ DOMAIN fin.arg["screenResolution"] = {"height"}
    /\ "userAgent" \notin DOMAIN fin.arg
    /\ "platform" \in DOMAIN fin.arg
    /\ fout.context.viewport = [width |-> 1920, height |-> 768]
    /\ fout.script.platform = "Win32"

Normalized == fin.op = "normalize_links"

HasFragment(url) == \E i \in 1..Len(url) : url[i] = "#"

\* A URL with a scheme.
IsAbsolute(url) == Len(url) >= 2 /\ url[2] = ":" /\ url[1] \notin Delims

\* The normalized form of each link of the input, duplicates included.
EachNormalized ==
    [i \in 1..Len(fin.arg.links) |->
        urldefrag(urljoin(fin.arg.base_url, fin.arg.links[i]))]

\* C16: normalizing the output of normalize_links again, on the same base
\* URL, gives the same list; the output has no fragment, only absolute
\* URLs and no duplicate, and lists the distinct normalized links in the
\* order of their first occurrence in the input.
C16_NormalizeIdempotent ==
    Normalized =>
      /\ normalize_links(fin.arg.base_url, fout) = fout
      /\ \A i \in 1..Len(fout) : ~HasFragment(fout[i]) /\ IsAbsolute(fout[i])
      /\ \A i, j \in 1..Len(fout) : i # j => fout[i] # fout[j]
      /\ {fout[i] : i \in 1..Len(fout)}
           = {EachNormalized[i] : i \in 1..Len(EachNormalized)}
      /\ \A i, j \in 1..Len(fout) :
           i < j =>
             Find(EachNormalized, {fout[i]}) < Find(EachNormalized, {fout[j]})

\* The call of the example: base "https://a.com/x/" and the links "y",
\* "/z#frag", "https://a.com/y".
ExampleCall ==
    /\ Normalized
    /\ fin.arg.base_url = <<"https", ":", "/", "/", "a.com", "/", "x", "/">>
    /\ fin.arg.links = << <<"y">>, <<"/", "z", "#", "frag">>,
                          <<"https", ":", "/", "/", "a.com", "/", "y">> >>

\* C17 as stated: the example call returns "https://a.com/x/y" and
\* "https://a.com/z", the third link collapsed as a duplicate.
C17_ExampleTwoLinks ==
    ExampleCall =>
      fout = << <<"https", ":", "/", "/", "a.com", "/", "x", "/", "y">>,
                <<"https", ":", "/", "/", "a.com", "/", "z">> >>

\* C17 amended: the example call returns "https://a.com/x/y",
\* "https://a.com/z" and "https://a.com/y": the third link is no duplicate
\* of the first.
C17_ExampleThreeLinks ==
    ExampleCall =>
      fout = << <<"https", ":", "/", "/", "a.com", "/", "x", "/", "y">>,
                <<"https", ":", "/", "/", "a.com", "/", "z">>,
                <<"https", ":", "/", "/", "a.com", "/", "y">> >>

\* C17 witness: the example call was made and returned three links.
C17_Witness ==
    /\ ExampleCall
    /\ Len(fout) = 3

\* C18: HTMLParser called with its parameters raises HTMLParserInputError,
\* and builds no object, exactly when html is empty or not a str.
C18_InputErrorIffEmptyOrNotStr ==
    fin.op = "HTMLParser" =>
      LET html == fin.arg.html
          bad == html.type # "str" \/ html.val = <<>>
      IN  /\ bad => fout.exc = "HTMLParserInputError" /\ fout.attrs = {}
          /\ ~bad => /\ fout.exc = None
                     /\ fout.html = html
                     /\ "soup" \in fout.attrs

\* C18 witness: a construction with non-empty bytes was rejected.
C18_Witness ==
    /\ fin.op = "HTMLParser"
    /\ fin.arg.html.type = "bytes"
    /\ fin.arg.html.val # <<>>
    /\ fout.exc = "HTMLParserInputError"

\* The latest scrap() call ended in ScrapError.
EndedInScrapError == last.exc = "ScrapError"

\* C21: a scrap() call that ends in ScrapError leaves its page open and in
\* the pool, and the pool as _get_page left it (the pool before the call,
\* with the call's own new page if it opened one); with
\* open_new_page_per_scrape false the next call opens no page and
\* navigates that same page.
C21_FailedPageKept ==
    [][/\ (calls' = calls + 1 /\ last'.exc = "ScrapError") =>
            /\ last'.page \in ctxPages'
            /\ \E i \in 1..Len(pages') : pages'[i] = last'.page
            /\ ctxPages \subseteq ctxPages'
            /\ pages' = pages \/ pages' = Append(pages, last'.page)
       /\ (/\ calls' = calls + 1
           /\ EndedInScrapError
           /\ ~cfg.open_new_page_per_scrape) =>
            /\ pages' = pages
            /\ ctxPages' = ctxPages
            /\ last'.page = last.page
            /\ Count(callLog', "new_page") = 0
            /\ Count(callLog', "goto_url") = 1]_vars

\* C21 witness: with the flag false, two calls navigated the one page of
\* the engine; the second ended in ScrapError after a failed navigation.
C21_Witness ==
    /\ ~cfg.open_new_page_per_scrape
    /\ calls = 2
    /\ EndedInScrapError
    /\ last.nav = "failed"
    /\ done["goto_url"] = 2
    /\ done["new_page"] = 1
    /\ pages = <<1>>
    /\ ctxPages = {1}
    /\ last.page = 1

\* The pages held in the pool.
Pooled == {pages[i] : i \in 1..Len(pages)}

\* C23: after any sequence of scrap() calls, the pages open in the context
\* are the pages held in the pool: no page is created and left untracked,
\* also when the storage restoration raised.
C23_ContextPagesArePooled ==
    ctxPages = Pooled

\* Entries of dict a other than "headless" are those of dict b.
SameButHeadless(a, b) ==
    /\ DOMAIN a \ {"headless"} = DOMAIN b \ {"headless"}
    /\ \A k \in DOMAIN a \ {"headless"} : a[k] = b[k]

\* C22: whatever engines were constructed, in whatever order and with
\* whatever headless values, each map passed in (the shared default
\* included) has the content it had before, and the launch options of each
\* engine are an object of its own holding that engine's headless value
\* and the other entries of the map it was given.
C22_PassedMapsUntouched ==
    (fin # NoLibCall /\ fin.op = "Scraper") =>
      /\ \A m \in PassedMaps : fout.heap[m] = fin.arg[m]
      /\ \A i \in 1..Len(fout.engines) :
           LET e == fout.engines[i]
           IN  e.built =>
                 /\ e.options \notin PassedMaps
                 /\ "headless" \in DOMAIN fout.heap[e.options]
                 /\ fout.heap[e.options]["headless"] = e.headless
                 /\ SameButHeadless(fout.heap[e.options], fin.arg[e.passed])
                 /\ \A j \in 1..Len(fout.engines) :
                      (j # i /\ fout.engines[j].built) =>
                        fout.engines[j].options # e.options

\* C22 witness: two engines were built on the default map, which has a
\* "headless" entry of TRUE, the first with headless FALSE and the second
\* with headless TRUE.
C22_Witness ==
    /\ fin # NoLibCall
    /\ fin.op = "Scraper"
    /\ fin.arg["BROWSER_LAUNCH_OPTIONS"]
         = [args |-> <<"--no-sandbox">>, headless |-> TRUE]
    /\ Len(fout.engines) = 2
    /\ \A i \in 1..2 :
         /\ fout.engines[i].built
         /\ fout.engines[i].passed = "BROWSER_LAUNCH_OPTIONS"
    /\ ~fout.engines[1].headless
    /\ fout.engines[2].headless
    /\ ~fout.heap[fout.engines[1].options]["headless"]

====
